---- MODULE Spec2Model ----
(***************************************************************************)
(* Model of process_excel (src/app.py): the per-sheet aggregation loop of  *)
(* the job metrics generator and the workbook assembly that follows it.    *)
(*                                                                         *)
(* Text is modelled as a sequence of one-character strings, so that        *)
(* str.strip, str.title and str.lower are computed character by character. *)
(* A cell of a sheet is a record: text, a missing value (NaN), or a        *)
(* timestamp.  Instants are integers counted in ticks, TicksPerDay ticks    *)
(* to the day.                                                             *)
(***************************************************************************)
EXTENDS Integers, Sequences, FiniteSets, TLC

VARIABLES file, start_date, end_date, pc, idx, df_filtered, all_results,
          err, output

vars == <<file, start_date, end_date, pc, idx, df_filtered, all_results,
          err, output>>

(***************************************************************************)
(* Bounds of the model.                                                    *)
(***************************************************************************)
MaxSheets == 3
MaxRows == 2
TicksPerDay == 2

(***************************************************************************)
(* Characters and the string methods the code calls.                       *)
(***************************************************************************)
Lowers == <<"a","b","c","d","e","f","g","h","i","j","k","l","m",
            "n","o","p","q","r","s","t","u","v","w","x","y","z">>
Uppers == <<"A","B","C","D","E","F","G","H","I","J","K","L","M",
            "N","O","P","Q","R","S","T","U","V","W","X","Y","Z">>

\* Code-point order of the characters the model uses.
CharOrder == <<" ", "%", "-">> \o Uppers \o Lowers

Pos(seq, c) == IF \E i \in 1..Len(seq) : seq[i] = c
               THEN CHOOSE i \in 1..Len(seq) : seq[i] = c
               ELSE 0

\* The case mappings, letter to letter.
UpperOf == [c \in {Lowers[i] : i \in 1..26} |-> Uppers[Pos(Lowers, c)]]
LowerOf == [c \in {Uppers[i] : i \in 1..26} |-> Lowers[Pos(Uppers, c)]]

IsCased(c) == c \in DOMAIN UpperOf \/ c \in DOMAIN LowerOf
ToUpper(c) == IF c \in DOMAIN UpperOf THEN UpperOf[c] ELSE c
ToLower(c) == IF c \in DOMAIN LowerOf THEN LowerOf[c] ELSE c

\* str.lower()
lower(s) == [i \in 1..Len(s) |-> ToLower(s[i])]
\* str.upper()
upper(s) == [i \in 1..Len(s) |-> ToUpper(s[i])]

\* str.title(): a cased character is upper-cased when it follows an uncased
\* character or starts the string, lower-cased otherwise.
title(s) == [i \in 1..Len(s) |->
               IF i = 1 \/ ~IsCased(s[i-1]) THEN ToUpper(s[i]) ELSE ToLower(s[i])]

RECURSIVE lstrip(_)
lstrip(s) == IF s # <<>> /\ Head(s) = " " THEN lstrip(Tail(s)) ELSE s

RECURSIVE rstrip(_)
rstrip(s) == IF s # <<>> /\ s[Len(s)] = " " THEN rstrip(SubSeq(s, 1, Len(s) - 1)) ELSE s

\* str.strip()
strip(s) == rstrip(lstrip(s))

\* s < t in Python's string order.
RECURSIVE StrLess(_, _)
StrLess(s, t) ==
    IF t = <<>> THEN FALSE
    ELSE IF s = <<>> THEN TRUE
    ELSE IF Head(s) = Head(t) THEN StrLess(Tail(s), Tail(t))
    ELSE Pos(CharOrder, Head(s)) < Pos(CharOrder, Head(t))

\* The sum of f over S.
RECURSIVE SumOver(_, _)
SumOver(f, S) ==
    IF S = {} THEN 0
    ELSE LET x == CHOOSE y \in S : TRUE IN f[x] + SumOver(f, S \ {x})

Range(f) == {f[x] : x \in DOMAIN f}

(***************************************************************************)
(* String literals of the source.                                          *)
(***************************************************************************)
cTenant == <<"T","e","n","a","n","t">>
cSystemJob == <<"S","y","s","t","e","m"," ","J","o","b">>
cTriggerType == <<"T","r","i","g","g","e","r"," ","T","y","p","e">>
cCompletedAt == <<"C","o","m","p","l","e","t","e","d"," ","A","t">>
cYes == <<"y","e","s">>
cNo == <<"n","o">>
cAdHocToken == <<"a","d","-","h","o","c">>
cScheduledToken == <<"s","c","h","e","d","u","l","e","d">>
cSystemJobs == <<"S","y","s","t","e","m"," ","J","o","b","s">>
cUserDefinedJobs == <<"U","s","e","r","-","D","e","f","i","n","e","d"," ","J","o","b","s">>
cAdhoc == <<"A","d","h","o","c">>
cScheduled == <<"S","c","h","e","d","u","l","e","d">>
cSystemJobsPct == cSystemJobs \o <<" ","%">>
cUserDefinedJobsPct == cUserDefinedJobs \o <<" ","%">>
cAdhocPct == cAdhoc \o <<" ","%">>
cScheduledPct == cScheduled \o <<" ","%">>

required_columns == {cTenant, cSystemJob, cTriggerType, cCompletedAt}

ordered_columns == <<cTenant, cSystemJobs, cSystemJobsPct,
                     cUserDefinedJobs, cUserDefinedJobsPct,
                     cAdhoc, cAdhocPct, cScheduled, cScheduledPct>>

count_columns == <<cSystemJobs, cUserDefinedJobs, cAdhoc, cScheduled>>

(***************************************************************************)
(* Cells.                                                                  *)
(***************************************************************************)
Str(s) == [t |-> "str", v |-> s]
NaN == [t |-> "nan"]
\* A timestamp cell: wall-clock tick, and the UTC offset when it carries one.
Ts(wall, aware, off) == [t |-> "ts", wall |-> wall, aware |-> aware, off |-> off]
\* Text no timestamp parser accepts.
Garbage == Str(<<"n","o","t"," ","a"," ","d","a","t","e">>)

(***************************************************************************)
(* Reading a sheet and normalizing its column labels (lines 15-22).        *)
(***************************************************************************)
\* pd.read_excel: the header row becomes the columns, the rows get a 0-based index.
read_excel(sheet) ==
    [columns |-> sheet.columns,
     rows |-> [i \in 1..Len(sheet.rows) |-> [index |-> i - 1, cells |-> sheet.rows[i]]]]

\* df.columns = [col.strip().title() for col in df.columns]
standardize(df) ==
    [df EXCEPT !.columns = [i \in 1..Len(df.columns) |-> title(strip(df.columns[i]))]]

\* required_columns.issubset(df.columns)
has_required(df) == required_columns \subseteq Range(df.columns)

\* row[label]
Cell(df, row, label) == row.cells[Pos(df.columns, label)]

\* Variant: the message does not say which sheet failed.
schema_error_unnamed(sheet) ==
    [type |-> "ValueError",
     text |-> "A sheet is missing required columns.",
     args |-> <<>>]

\* f"Sheet '{sheet}' is missing required columns."
schema_error(sheet) ==
    [type |-> "ValueError",
     text |-> "Sheet '{sheet}' is missing required columns.",
     args |-> [sheet |-> sheet.name]]

(***************************************************************************)
(* The temporal filter (lines 11-12 and 25-30).                            *)
(***************************************************************************)
NaT == [t |-> "nat"]
Utc(n) == [t |-> "utc", at |-> n]

\* pd.to_datetime(start_date).tz_localize('UTC')
start_date_utc == start_date * TicksPerDay
\* pd.to_datetime(end_date).tz_localize('UTC') + timedelta(days=1)
end_date_utc == end_date * TicksPerDay + TicksPerDay

\* pd.to_datetime(value, utc=True, errors='coerce'): a naive timestamp is
\* taken as UTC, an aware one is converted, anything else becomes NaT.
to_datetime(c) ==
    IF c.t = "ts"
    THEN IF c.aware THEN Utc(c.wall - c.off) ELSE Utc(c.wall)
    ELSE NaT

\* df['Completed At'] = pd.to_datetime(df['Completed At'], utc=True, errors='coerce')
parse_completed(df) ==
    LET p == Pos(df.columns, cCompletedAt)
    IN [df EXCEPT !.rows = [i \in 1..Len(df.rows) |->
            [df.rows[i] EXCEPT !.cells[p] = to_datetime(df.rows[i].cells[p])]]]

\* df.dropna(subset=['Completed At'])
dropna_completed(df) ==
    LET Keep(r) == Cell(df, r, cCompletedAt) # NaT
    IN [df EXCEPT !.rows = SelectSeq(df.rows, Keep)]

\* Variant: the shifted end bound compared with <.
in_window_exclusive(at, lo, hi) == at >= lo /\ at < hi

\* (at >= start_date_utc) & (at <= end_date_utc)
in_window(at, lo, hi) == at >= lo /\ at <= hi

\* df[mask]
filter_window(df) ==
    LET Keep(r) == in_window(Cell(df, r, cCompletedAt).at, start_date_utc, end_date_utc)
    IN [df EXCEPT !.rows = SelectSeq(df.rows, Keep)]

\* Lines 25-30 for a sheet that has the required columns.
filtered(df) == filter_window(dropna_completed(parse_completed(df)))

(***************************************************************************)
(* Floats and percentage strings.                                          *)
(***************************************************************************)
FloatNaN == [cls |-> "nan"]
FloatInf == [cls |-> "inf"]
\* A finite float with two decimals, kept as its number of hundredths.
Finite(h) == [cls |-> "finite", hundredths |-> h]

\* round(n / d, 0) for d > 0, ties to even as numpy rounds.
RoundDiv(n, d) ==
    LET q == n \div d
        r == n % d
    IN IF 2 * r < d THEN q
       ELSE IF 2 * r > d THEN q + 1
       ELSE IF q % 2 = 0 THEN q ELSE q + 1

\* (count / total * 100).round(2): pandas divides by zero without raising,
\* 0 / 0 is NaN and n / 0 is inf.
pct(count, total) ==
    IF total = 0
    THEN IF count = 0 THEN FloatNaN ELSE FloatInf
    ELSE Finite(RoundDiv(count * 100 * 100, total))

\* .astype(str) + '%'
pct_str(x) == [text |-> "{float}%", val |-> x]
\* the literal '100%'
Literal100 == [text |-> "100%"]

(***************************************************************************)
(* The categorical summaries (lines 36-53).                                *)
(***************************************************************************)
\* df[label].str.lower(): text is lower-cased, anything else becomes NaN.
str_lower(df, label) ==
    [i \in 1..Len(df.rows) |->
        LET c == Cell(df, df.rows[i], label)
        IN IF c.t = "str" THEN Str(lower(c.v)) ELSE NaN]

\* df[label]
column(df, label) == [i \in 1..Len(df.rows) |-> Cell(df, df.rows[i], label)]

\* Series.value_counts(): the count of every value present, NaN left out.
value_counts(series) ==
    LET present == {i \in DOMAIN series : series[i].t = "str"}
        values == {series[i].v : i \in present}
    IN [v \in values |-> Cardinality({i \in present : series[i].v = v})]

\* .reindex([a, b], fill_value=0)
reindex(counts, a, b) ==
    [k \in {a, b} |-> IF k \in DOMAIN counts THEN counts[k] ELSE 0]

\* Variant: the total taken before the reindex, over every value present.
summary_total_all(df, label, a, b) ==
    LET counts == value_counts(str_lower(df, label))
    IN SumOver(counts, DOMAIN counts)

\* job_type_summary.sum() / trigger_summary.sum(): the sum of the reindexed
\* series, that is of the two token counts.
summary_total(df, label, a, b) ==
    LET summary == reindex(value_counts(str_lower(df, label)), a, b)
    IN summary[a] + summary[b]

\* One categorical table: the two category rows, the Percentage column,
\* then the appended Total row.
summary_df(df, label, a, b, head, label_a, label_b) ==
    LET summary == reindex(value_counts(str_lower(df, label)), a, b)
        total == summary_total(df, label, a, b)
        Row(name, count, percentage) ==
            (head :> name) @@ ("Count" :> count) @@ ("Percentage" :> percentage)
    IN [columns |-> <<head, "Count", "Percentage">>,
        rows |-> << Row(label_a, summary[a], pct_str(pct(summary[a], total))),
                    Row(label_b, summary[b], pct_str(pct(summary[b], total))),
                    Row("Total", total, Literal100) >>]

job_type_df(df) ==
    summary_df(df, cSystemJob, cYes, cNo, "Job Type", "System Jobs", "User-Defined Jobs")

trigger_df(df) ==
    summary_df(df, cTriggerType, cAdHocToken, cScheduledToken,
               "Trigger Type", "Adhoc", "Scheduled")

(***************************************************************************)
(* Tenant-wise job volume (lines 56-60).                                   *)
(***************************************************************************)
cTotal == <<"T","o","t","a","l">>

\* value_counts() order: most frequent first, ties in order of first appearance.
counts_order(series, counts) ==
    LET First(v) == CHOOSE i \in DOMAIN series :
                        /\ series[i] = Str(v)
                        /\ \A j \in DOMAIN series : series[j] = Str(v) => i <= j
        Before(u, v) == \/ counts[u] > counts[v]
                        \/ counts[u] = counts[v] /\ First(u) < First(v)
        Rank(v) == 1 + Cardinality({u \in DOMAIN counts : Before(u, v)})
    IN [i \in 1..Cardinality(DOMAIN counts) |->
            CHOOSE v \in DOMAIN counts : Rank(v) = i]

tenant_df(df) ==
    LET series == column(df, cTenant)
        counts == value_counts(series)
        order == counts_order(series, counts)
        tenant_total == SumOver(counts, DOMAIN counts)
        Row(name, count, percentage) ==
            ("Tenant" :> name) @@ ("Job Count" :> count) @@ ("Percentage" :> percentage)
    IN [columns |-> <<"Tenant", "Job Count", "Percentage">>,
        rows |-> [i \in 1..Len(order) |->
                    Row(order[i], counts[order[i]],
                        pct_str(pct(counts[order[i]], tenant_total)))]
                 \o << Row(cTotal, tenant_total, Literal100) >>]

(***************************************************************************)
(* Tenant-wise system job and trigger type counts (lines 63-113).          *)
(***************************************************************************)
\* df.groupby(['Tenant', df[label].str.lower()]).size().unstack(fill_value=0):
\* rows with a missing key are left out of every group; the result has one
\* row per tenant, one column per lower-cased value, absent pairs count 0.
\* With no row left the frame is empty: no tenants, no columns.
group_sizes(df, label) ==
    LET tenant == column(df, cTenant)
        value == str_lower(df, label)
        live == {i \in 1..Len(df.rows) : tenant[i].t = "str" /\ value[i].t = "str"}
        index == {tenant[i].v : i \in live}
        columns == {value[i].v : i \in live}
    IN [index |-> index,
        columns |-> columns,
        val |-> [t \in index |-> [c \in columns |->
                    Cardinality({i \in live : tenant[i].v = t /\ value[i].v = c})]]]

\* frame.rename(columns={a: to_a, b: to_b})
rename(frame, a, to_a, b, to_b) ==
    LET New(c) == IF c = a THEN to_a ELSE IF c = b THEN to_b ELSE c
        columns == {New(c) : c \in frame.columns}
        Old(n) == CHOOSE c \in frame.columns : New(c) = n
    IN [index |-> frame.index,
        columns |-> columns,
        val |-> [t \in frame.index |-> [n \in columns |-> frame.val[t][Old(n)]]]]

tenant_sysjob(df) == rename(group_sizes(df, cSystemJob), cYes, cSystemJobs, cNo, cUserDefinedJobs)

tenant_trigger(df) ==
    rename(group_sizes(df, cTriggerType), cAdHocToken, cAdhoc, cScheduledToken, cScheduled)

\* DataFrame.join is given no lsuffix/rsuffix: a column label present in both
\* frames makes it raise ValueError("columns overlap but no suffix specified").
columns_overlap(df) == tenant_sysjob(df).columns \cap tenant_trigger(df).columns

overlap_error(df) ==
    [type |-> "ValueError",
     text |-> "columns overlap but no suffix specified: {to_rename}",
     args |-> [to_rename |-> columns_overlap(df)]]

\* Variant: how='inner'.
join_index_inner(left, right) == left.index \cap right.index

\* The row labels of left.join(right, how='outer').
join_index(left, right) == left.index \cup right.index

\* left.join(right, how='outer').fillna(0): a cell with no counterpart in its
\* frame is NaN after the join and 0 after fillna.
join_fillna(left, right) ==
    LET index == join_index(left, right)
        columns == left.columns \cup right.columns
    IN [index |-> index,
        columns |-> columns,
        val |-> [t \in index |-> [c \in columns |->
                    IF c \in left.columns
                    THEN IF t \in left.index THEN left.val[t][c] ELSE 0
                    ELSE IF t \in right.index THEN right.val[t][c] ELSE 0]]]

\* for col in [...]: if col not in tenant_metrics.columns: tenant_metrics[col] = 0
\* followed by .astype(int), which leaves the integral counts as they are.
ensure_columns(frame) ==
    LET columns == frame.columns \cup Range(count_columns)
    IN [index |-> frame.index,
        columns |-> columns,
        val |-> [t \in frame.index |-> [c \in columns |->
                    IF c \in frame.columns THEN frame.val[t][c] ELSE 0]]]

\* tenant_metrics[col].sum()
column_sum(frame, c) == SumOver([t \in frame.index |-> frame.val[t][c]], frame.index)

\* total if total != 0 else 1
guard(total) == IF total # 0 THEN total ELSE 1

\* The four global percentage columns (lines 83-100).
with_percentages(frame) ==
    LET PctName(c) == c \o <<" ", "%">>
        columns == frame.columns \cup {PctName(c) : c \in Range(count_columns)}
    IN [index |-> frame.index,
        columns |-> columns,
        val |-> [t \in frame.index |-> [c \in columns |->
                    IF c \in frame.columns THEN frame.val[t][c]
                    ELSE LET n == CHOOSE m \in Range(count_columns) : PctName(m) = c
                         IN pct_str(pct(frame.val[t][n], guard(column_sum(frame, n))))]]]

\* The tenants in index order: the outer join sorts the row labels.
RECURSIVE sorted(_)
sorted(S) ==
    IF S = {} THEN <<>>
    ELSE LET m == CHOOSE x \in S : \A y \in S \ {x} : StrLess(x, y)
         IN <<m>> \o sorted(S \ {m})

\* reset_index() makes the row labels the Tenant column; the columns kept are
\* those of ordered_columns that exist, in that order.
tenant_metrics(df) ==
    LET frame == with_percentages(ensure_columns(join_fillna(tenant_sysjob(df), tenant_trigger(df))))
        have == frame.columns \cup {cTenant}
        existing_cols == SelectSeq(ordered_columns, LAMBDA c : c \in have)
        order == sorted(frame.index)
    IN [columns |-> existing_cols,
        rows |-> [i \in 1..Len(order) |->
                    [c \in Range(existing_cols) |->
                        IF c = cTenant THEN order[i] ELSE frame.val[order[i]][c]]]]

(***************************************************************************)
(* The bundle and the workbook (lines 116-131).                            *)
(***************************************************************************)
\* Variant: enumerate without start=1.
key_zero_based(i, name) == [text |-> "Env_{idx}_{name}", idx |-> i - 1, name |-> name]

\* f"Env_{idx}_{name}"
key(i, name) == [text |-> "Env_{idx}_{name}", idx |-> i, name |-> name]

table_names == <<"Job_Type", "Trigger_Type", "TenantWise_Job_Count",
                 "TenantWise_System_Trigger_Count">>

sheet_results(i, df) ==
    << [key |-> key(i, "Job_Type"), df |-> job_type_df(df)],
       [key |-> key(i, "Trigger_Type"), df |-> trigger_df(df)],
       [key |-> key(i, "TenantWise_Job_Count"), df |-> tenant_df(df)],
       [key |-> key(i, "TenantWise_System_Trigger_Count"), df |-> tenant_metrics(df)] >>

no_data_error ==
    [type |-> "ValueError",
     text |-> "No data found within the selected date range in any sheet.",
     args |-> <<>>]

\* df.to_excel(writer, sheet_name=sheet_name, index=False) for every entry
workbook(results) ==
    [i \in 1..Len(results) |->
        [sheet_name |-> results[i].key,
         header |-> results[i].df.columns,
         rows |-> results[i].df.rows]]

None == [type |-> "None"]

(***************************************************************************)
(* The inputs the model draws: an uploaded workbook and the two dates.     *)
(***************************************************************************)
SheetNames == <<"Prod", "Dev", "Qa", "Stage">>

HeaderExact == <<cTenant, cSystemJob, cTriggerType, cCompletedAt>>
\* The same labels in other casings and with stray blanks.
HeaderMessy == << <<" ">> \o lower(cTenant) \o <<" ">>, upper(cSystemJob),
                  lower(cTriggerType) \o <<" ">>, lower(cCompletedAt) >>

\* A sequence without its j-th element.
Drop(seq, j) == SubSeq(seq, 1, j - 1) \o SubSeq(seq, j + 1, Len(seq))

vAcme == <<"A","c","m","e">>
vBeta == <<"B","e","t","a">>
vYes == <<"Y","e","s">>
vNO == <<"N","O">>
vUnknown == <<"u","n","k","n","o","w","n">>
vAdHoc == <<"A","d","-","H","o","c">>
vScheduled == <<"s","c","h","e","d","u","l","e","d">>

\* Midnight of day 1, inside every window the model draws; and a late instant
\* outside all of them.
EarlyTs == Ts(TicksPerDay, FALSE, 0)
LateTs == Ts(3 * TicksPerDay, FALSE, 0)

\* Timestamp cells: blank, unparseable text, every naive tick from the last
\* of day 0 to the first after midnight of day 2, and two ticks written with
\* a UTC offset of one tick.
TimeCells == {NaN, Garbage}
             \cup {Ts(w, FALSE, 0) : w \in (TicksPerDay - 1)..(2 * TicksPerDay + 1)}
             \cup {Ts(TicksPerDay, TRUE, 1), Ts(2 * TicksPerDay + 1, TRUE, 1)}

DatePairs == {<<1, 1>>, <<0, 1>>, <<1, 0>>}

\* Rows that vary the three text columns: every System Job value with and
\* without a tenant, every Trigger Type value under two tenants.
ContentRows ==
    {<<t, s, Str(vAdHoc), EarlyTs>> :
        t \in {Str(vAcme), NaN}, s \in {Str(vYes), Str(vNO), Str(vUnknown), NaN}}
    \cup {<<t, Str(vYes), g, EarlyTs>> :
        t \in {Str(vAcme), Str(vBeta)}, g \in {Str(vAdHoc), Str(vScheduled), Str(vUnknown), NaN}}
    \cup {<<Str(vBeta), Str(vNO), Str(vScheduled), LateTs>>}

\* Rows that vary the timestamp only.
TimeRows == {<<Str(vAcme), Str(vYes), Str(vAdHoc), c>> : c \in TimeCells}

SeqsUpTo(S, n) == UNION {[1..k -> S] : k \in 0..n}

CleanRow == <<Str(vAcme), Str(vYes), Str(vAdHoc), EarlyTs>>
ClashRow == <<Str(vBeta), Str(vUnknown), Str(vUnknown), EarlyTs>>
OrphanRow == <<NaN, Str(vYes), Str(vScheduled), EarlyTs>>
LateRow == <<Str(vBeta), Str(vNO), Str(vScheduled), LateTs>>

\* Sheets that lack one required column, in both header spellings.
LackingSheets ==
    {[columns |-> Drop(h, j), rows |-> <<Drop(CleanRow, j)>>] :
        h \in {HeaderExact, HeaderMessy}, j \in 1..4}

\* Sheets of the multi-sheet workbooks: a small choice of rows under a valid
\* header, and one sheet without its Completed At column.
SmallSheets ==
    {[columns |-> HeaderMessy, rows |-> r] :
        r \in {<<>>, <<CleanRow>>, <<ClashRow>>, <<OrphanRow>>, <<LateRow>>}}
    \cup {[columns |-> HeaderExact, rows |-> <<CleanRow, LateRow>>],
          [columns |-> Drop(HeaderMessy, 4), rows |-> <<Drop(CleanRow, 4)>>]}

Named(bodies) ==
    [i \in 1..Len(bodies) |->
        [name |-> SheetNames[i], columns |-> bodies[i].columns, rows |-> bodies[i].rows]]

Inputs ==
    {[file |-> Named(<<[columns |-> HeaderExact, rows |-> r]>>), start |-> 1, end |-> 1] :
        r \in SeqsUpTo(ContentRows, MaxRows)}
    \cup {[file |-> Named(<<[columns |-> HeaderMessy, rows |-> r]>>), start |-> d[1], end |-> d[2]] :
        r \in SeqsUpTo(TimeRows, MaxRows), d \in DatePairs}
    \cup {[file |-> Named(<<b>>), start |-> 1, end |-> 1] : b \in LackingSheets}
    \cup {[file |-> Named(b), start |-> 1, end |-> 1] :
        b \in UNION {[1..n -> SmallSheets] : n \in 1..MaxSheets}}

(***************************************************************************)
(* The state machine: process_excel from its call to its return or raise.  *)
(***************************************************************************)
EmptyFrame == [columns |-> <<>>, rows |-> <<>>]

Init ==
    /\ \E inp \in Inputs :
        /\ file = inp.file
        /\ start_date = inp.start
        /\ end_date = inp.end
    /\ pc = "loop"
    /\ idx = 0
    /\ df_filtered = EmptyFrame
    /\ all_results = <<>>
    /\ err = None
    /\ output = None

\* The sheet the next iteration of the for loop reads, labels standardized.
next_df == standardize(read_excel(file[idx + 1]))

InLoop == pc = "loop" /\ idx < Len(file)

\* Variant: a sheet without the required columns is skipped.
SkipMissingColumns ==
    /\ InLoop
    /\ ~has_required(next_df)
    /\ idx' = idx + 1
    /\ UNCHANGED <<file, start_date, end_date, pc, df_filtered, all_results, err, output>>

\* Lines 21-22: a required column is missing.
RaiseMissingColumns ==
    /\ InLoop
    /\ ~has_required(next_df)
    /\ idx' = idx + 1
    /\ pc' = "raised"
    /\ err' = schema_error(file[idx + 1])
    /\ UNCHANGED <<file, start_date, end_date, df_filtered, all_results, output>>

\* Lines 32-33: nothing of the sheet is in the window.
SkipEmptySheet ==
    /\ InLoop
    /\ LET df == next_df
       IN /\ has_required(df)
          /\ LET kept == filtered(df)
             IN /\ kept.rows = <<>>
                /\ df_filtered' = kept
    /\ idx' = idx + 1
    /\ UNCHANGED <<file, start_date, end_date, pc, all_results, err, output>>

\* Line 70: the join of the two per-tenant breakdowns raises.
RaiseColumnsOverlap ==
    /\ InLoop
    /\ LET df == next_df
       IN /\ has_required(df)
          /\ LET kept == filtered(df)
             IN /\ kept.rows # <<>>
                /\ columns_overlap(kept) # {}
                /\ df_filtered' = kept
                /\ err' = overlap_error(kept)
    /\ idx' = idx + 1
    /\ pc' = "raised"
    /\ UNCHANGED <<file, start_date, end_date, all_results, output>>

\* Lines 35-119: the four tables of the sheet are stored.
StoreResults ==
    /\ InLoop
    /\ LET df == next_df
       IN /\ has_required(df)
          /\ LET kept == filtered(df)
             IN /\ kept.rows # <<>>
                /\ columns_overlap(kept) = {}
                /\ df_filtered' = kept
                /\ all_results' = all_results \o sheet_results(idx + 1, kept)
    /\ idx' = idx + 1
    /\ UNCHANGED <<file, start_date, end_date, pc, err, output>>

\* Variant: an empty bundle is written out all the same.
ReturnEmptyWorkbook ==
    /\ pc = "loop"
    /\ idx = Len(file)
    /\ all_results = <<>>
    /\ pc' = "returned"
    /\ output' = [type |-> "tuple", workbook |-> <<>>, bundle |-> <<>>]
    /\ UNCHANGED <<file, start_date, end_date, idx, df_filtered, all_results, err>>

\* Lines 121-122.
RaiseNoData ==
    /\ pc = "loop"
    /\ idx = Len(file)
    /\ all_results = <<>>
    /\ pc' = "raised"
    /\ err' = no_data_error
    /\ UNCHANGED <<file, start_date, end_date, idx, df_filtered, all_results, output>>

\* Lines 124-131.
ReturnWorkbook ==
    /\ pc = "loop"
    /\ idx = Len(file)
    /\ all_results # <<>>
    /\ pc' = "returned"
    /\ output' = [type |-> "tuple", workbook |-> workbook(all_results), bundle |-> all_results]
    /\ UNCHANGED <<file, start_date, end_date, idx, df_filtered, all_results, err>>

Next ==
    \/ RaiseMissingColumns
    \/ SkipEmptySheet
    \/ RaiseColumnsOverlap
    \/ StoreResults
    \/ RaiseNoData
    \/ ReturnWorkbook

Spec == Init /\ [][Next]_vars

(***************************************************************************)
(* What the input says, read off the uploaded file without the pipeline.   *)
(***************************************************************************)
Terminal == pc \in {"raised", "returned"}

\* The labels the uploaded sheets use, each with its normal form.
RawLabels == Range(HeaderExact) \cup Range(HeaderMessy)
NormTable == [l \in RawLabels |-> title(strip(l))]
NormLabel(l) == NormTable[l]

\* Sheet k carries every required label once its labels are normalized.
SheetOk(k) ==
    \A l \in required_columns :
        \E j \in 1..Len(file[k].columns) : NormLabel(file[k].columns[j]) = l

MissingLabels(k) ==
    {l \in required_columns :
        \A j \in 1..Len(file[k].columns) : NormLabel(file[k].columns[j]) # l}

RawCell(k, i, l) ==
    file[k].rows[i][CHOOSE j \in 1..Len(file[k].columns) : NormLabel(file[k].columns[j]) = l]

InstantOf(c) == IF c.aware THEN c.wall - c.off ELSE c.wall

\* Row i of sheet k has a Completed At that parses to an instant t with
\* start 00:00 UTC <= t <= (end + 1 day) 00:00 UTC.
Survives(k, i) ==
    LET c == RawCell(k, i, cCompletedAt)
    IN /\ c.t = "ts"
       /\ start_date * TicksPerDay <= InstantOf(c)
       /\ InstantOf(c) <= (end_date + 1) * TicksPerDay

Kept(k) == {i \in 1..Len(file[k].rows) : Survives(k, i)}

\* The sheets with at least one row in the window.
Productive == {k \in 1..Len(file) : SheetOk(k) /\ Kept(k) # {}}

IsToken(c, token) == c.t = "str" /\ lower(c.v) = token

TokenCount(k, l, token) ==
    Cardinality({i \in Kept(k) : IsToken(RawCell(k, i, l), token)})

TenantTokenCount(k, tenant, l, token) ==
    Cardinality({i \in Kept(k) :
        RawCell(k, i, cTenant) = Str(tenant) /\ IsToken(RawCell(k, i, l), token)})

\* The tenants of the two per-tenant breakdowns of sheet k.
BreakdownTenants(k) ==
    {RawCell(k, i, cTenant).v :
        i \in {j \in Kept(k) :
                 /\ RawCell(k, j, cTenant).t = "str"
                 /\ \/ RawCell(k, j, cSystemJob).t = "str"
                    \/ RawCell(k, j, cTriggerType).t = "str"}}

Entries(names) == {i \in 1..Len(all_results) : all_results[i].key.name \in names}

C3_AbortOnFirstError ==
    \A k \in 1..idx :
        ~SheetOk(k) =>
            /\ k = idx
            /\ pc = "raised"
            /\ err.text = "Sheet '{sheet}' is missing required columns."
            /\ output = None

\* Sheet 2 of 3 fails after sheet 1 produced its tables; sheet 3 is never read.
C3_Witness ==
    /\ Len(file) = 3 /\ idx = 2 /\ pc = "raised"
    /\ ~SheetOk(2)
    /\ Len(all_results) = 4
    /\ output = None

(***************************************************************************)
(* C4                                                                      *)
(***************************************************************************)
\* C4: when every sheet passes schema validation and some sheet has a row in
\* the window, the run succeeds and the bundle holds the four tables, in
\* order, of each sheet with a row in the window and of no other sheet.
C4_SucceedsWithFourTablesEach ==
    (Terminal /\ (\A k \in 1..Len(file) : SheetOk(k)) /\ Productive # {}) =>
        /\ pc = "returned"
        /\ Len(output.bundle) = 4 * Cardinality(Productive)
        /\ \A i \in 1..Len(output.bundle) :
             output.bundle[i].key.name = table_names[((i - 1) % 4) + 1]

(***************************************************************************)
(* C5                                                                      *)
(***************************************************************************)
\* C5: when every sheet passes schema validation and none has a row in the
\* window, the bundle is empty at assembly and the run fails with the no-data
\* error; no workbook is produced.
C5_NoData ==
    (Terminal /\ (\A k \in 1..Len(file) : SheetOk(k)) /\ Productive = {}) =>
        /\ pc = "raised"
        /\ err.text = "No data found within the selected date range in any sheet."
        /\ all_results = <<>>
        /\ output = None

\* Two valid sheets, neither with a row in the window.
C5_Witness ==
    /\ Len(file) = 2 /\ SheetOk(1) /\ SheetOk(2)
    /\ file[2].rows # <<>>
    /\ Productive = {}
    /\ pc = "raised"
    /\ err = no_data_error

(***************************************************************************)
(* C6                                                                      *)
(***************************************************************************)
\* C6 as stated: the numbers in the keys of the returned bundle are 1..m, m
\* the number of sheets with a row in the window.
C6_NumbersWithoutGaps ==
    pc = "returned" =>
        {output.bundle[i].key.idx : i \in 1..Len(output.bundle)}
            = 1..Cardinality(Productive)

\* C6 amended: the number in the keys of a sheet is the 1-based position of
\* the sheet in the file; the numbers of the returned bundle are the positions
\* of the sheets with a row in the window, in increasing order, and a skipped
\* sheet leaves a gap.
C6_NumbersAreFilePositions ==
    pc = "returned" =>
        /\ {output.bundle[i].key.idx : i \in 1..Len(output.bundle)} = Productive
        /\ \A i, j \in 1..Len(output.bundle) :
             i <= j => output.bundle[i].key.idx <= output.bundle[j].key.idx

\* The first sheet is skipped and the second one is numbered 2.
C6_Witness ==
    /\ pc = "returned"
    /\ Len(file) = 2
    /\ Productive = {2}
    /\ output.bundle[1].key.idx = 2

(***************************************************************************)
(* C7                                                                      *)
(***************************************************************************)
CategoricalOf(name) ==
    IF name = "Job_Type"
    THEN [label |-> cSystemJob, a |-> cYes, b |-> cNo]
    ELSE [label |-> cTriggerType, a |-> cAdHocToken, b |-> cScheduledToken]

C8_ZeroTotalGivesZeroPercent ==
    \A i \in Entries({"Job_Type", "Trigger_Type"}) :
        LET rows == all_results[i].df.rows
        IN rows[3]["Count"] = 0 =>
             /\ rows[1]["Percentage"] = pct_str(Finite(0))
             /\ rows[2]["Percentage"] = pct_str(Finite(0))

(***************************************************************************)
(* C9                                                                      *)
(***************************************************************************)
\* C9: the System Jobs column of the wide table sums to the number of "yes"
\* in the case-folded System Job column of the filtered sheet, which is the
\* count of the System Jobs row of the sheet's Job Type table.
C9_SystemJobsSumIsGlobalYes ==
    \A i \in Entries({"TenantWise_System_Trigger_Count"}) :
        LET e == all_results[i]
            rows == e.df.rows
            total == SumOver([j \in 1..Len(rows) |-> rows[j][cSystemJobs]], 1..Len(rows))
        IN /\ total = TokenCount(e.key.idx, cSystemJob, cYes)
           /\ total = all_results[i - 3].df.rows[1]["Count"]

====
